---- MODULE Spec2Model ----
(***************************************************************************)
(* Model of spotBezierEnv (bullet/src/spotmicro/GymEnvs/spot_bezier_env.py) *)
(* : the step orchestrator `step` and the reward evaluator `_reward`.      *)
(*                                                                         *)
(* Number representation (the code uses IEEE doubles; the model uses       *)
(* fixed point):                                                           *)
(*   - speeds, twists, yaw rates             : quarters   (1.0 = 4)        *)
(*   - StepVelocity                          : whole units, so that        *)
(*     StepVelocity / 4.0 is the same integer read as quarters             *)
(*   - StepLength                            : sign bit and magnitude, as  *)
(*     math.copysign reads the sign bit (it tells +0.0 from -0.0)          *)
(*   - LateralFraction and yaw               : multiples of pi/2           *)
(*   - reward terms, roll, pitch, rates      : thousandths (1.0 = 1000)    *)
(*   - weights                               : ten-thousandths             *)
(*   - the weighted reward                   : 1e-7        (3.0 = 3*10^7)  *)
(*   - wall-clock time                       : ticks                       *)
(***************************************************************************)
EXTENDS Integers, Sequences, FiniteSets, TLC

VARIABLES spot, smach, env, clock, calls, locals, ret

vars == <<spot, smach, env, clock, calls, locals, ret>>

----------------------------------------------------------------------------
(* Bounds of the model *)

MaxSteps == 2
MaxClock == 3
MaxElapsed == 2
NumMotors == 2
MaxTorque == 1

----------------------------------------------------------------------------
(* Arithmetic helpers *)

Abs(x) == IF x < 0 THEN -x ELSE x

RECURSIVE SumTo(_, _)
SumTo(f, n) == IF n = 0 THEN 0 ELSE f[n] + SumTo(f, n - 1)

Dot(a, b) == SumTo([i \in 1..Len(a) |-> a[i] * b[i]], Len(a))

MatVec(M, v) == [i \in 1..Len(M) |-> Dot(M[i], v)]

MatMul(A, B) ==
    [i \in 1..Len(A) |->
        [j \in 1..Len(B[1]) |-> SumTo([k \in 1..Len(B) |-> A[i][k] * B[k][j]], Len(B))]]

Transpose(M) == [i \in 1..Len(M[1]) |-> [j \in 1..Len(M) |-> M[j][i]]]

\* cos and sin of k * pi/2 (exact to the model's resolution)
Cos(k) == CASE k % 4 = 0 -> 1 [] k % 4 = 2 -> -1 [] OTHER -> 0

Sin(k) == CASE k % 4 = 1 -> 1 [] k % 4 = 3 -> -1 [] OTHER -> 0

\* math.copysign(x, y): the magnitude of x with the sign bit of y
CopySign(x, y) == IF y.neg THEN -Abs(x) ELSE Abs(x)

\* 1000 * exp(-(e/4)^2 / 0.1), rounded, for an error of e quarters
Gauss(e) ==
    CASE Abs(e) = 0 -> 1000
      [] Abs(e) = 1 -> 535
      [] Abs(e) = 2 -> 82
      [] Abs(e) = 3 -> 4
      [] OTHER -> 0

----------------------------------------------------------------------------
(* spotmicro.Kinematics.LieAlgebra, restricted to yaw-only attitudes:       *)
(* a transform is kept as its rotation block R and translation p.          *)

Zero3 == <<0, 0, 0>>

RPY(roll, pitch, yaw) ==
    [R |-> << <<Cos(yaw), -Sin(yaw), 0>>,
              <<Sin(yaw),  Cos(yaw), 0>>,
              <<0, 0, 1>> >>,
     p |-> Zero3]

TransToRp(T) == <<T.R, T.p>>

RpToTrans(R, p) == [R |-> R, p |-> p]

TransInv(T) ==
    LET Rt == Transpose(T.R)
    IN  [R |-> Rt, p |-> [i \in 1..3 |-> -MatVec(Rt, T.p)[i]]]

VecToso3(w) == << <<0, -w[3], w[2]>>, <<w[3], 0, -w[1]>>, <<-w[2], w[1], 0>> >>

\* the 6x6 matrix [[R, 0], [so3(p) R, R]]
Adjoint(T) ==
    LET pR == MatMul(VecToso3(T.p), T.R)
    IN  [i \in 1..6 |->
            IF i <= 3 THEN T.R[i] \o Zero3 ELSE pR[i - 3] \o T.R[i - 3]]

\* pybullet getEulerFromQuaternion on a yaw-only attitude
getEulerFromQuaternion(orn) == <<0, 0, orn>>

----------------------------------------------------------------------------
(* Collaborators read by the reward evaluator *)

\* BezierStepper.return_bezier_params: (pos, orn, StepLength, LateralFraction,
\* YawRate, StepVelocity, ClearanceHeight, PenetrationDepth)
return_bezier_params(sm) ==
    <<0, 0, sm.StepLength, sm.LateralFraction, sm.YawRate, sm.StepVelocity, 0, 0>>

GetBasePosition(sp) == sp.pos

GetBaseOrientation(sp) == sp.orn

GetMotorTorques(sp) == sp.torques

GetMotorVelocities(sp) == sp.velocities

\* spotGymEnv._get_observation: [roll, pitch, rate x, rate y, yaw rate]
get_observation(st) == st.spot.obs

\* one entry of the call record: the operation, the step counter and the
\* length of the objectives log when it was invoked, and its argument
Call(st, op, arg) ==
    [st EXCEPT !.calls = Append(@, [op |-> op,
                                    cnt |-> st.env.env_step_counter,
                                    len |-> Len(st.env.objectives),
                                    arg |-> arg])]

----------------------------------------------------------------------------
(* spotBezierEnv._reward *)

\* the step velocity taken as it is, without the sign of the step length
DesiredVelictyNoCopysign(StepVelocity, StepLength) == StepVelocity

DesiredVelicty(StepVelocity, StepLength) == CopySign(StepVelocity, StepLength)

\* the lateral reward left out of the forward reward
CombinedForwardOnly(forward_reward, lateral_reward) == forward_reward

\* forward_reward after `forward_reward += lateral_reward`
CombinedForward(forward_reward, lateral_reward) == forward_reward + lateral_reward

\* the signed power, without the absolute value
EnergyRewardSigned(torques, velocities, time_step) ==
    -Dot(torques, velocities) * time_step

EnergyReward(torques, velocities, time_step) ==
    -Abs(Dot(torques, velocities)) * time_step

WeightedReward(w, forward, rot, energy, drift, shake, rp, rate) ==
    w.distance * forward + w.rotation * rot + w.energy * energy
      + w.drift * drift + w.shake * shake + w.rp * rp + w.rate * rate

LogEntry(forward_reward, energy_reward, drift_reward, shake_reward) ==
    <<forward_reward, energy_reward, drift_reward, shake_reward>>

\* the new entry put in front of the log
AppendObjectiveInFront(objectives, entry) == <<entry>> \o objectives

AppendObjective(objectives, entry) == Append(objectives, entry)

\* the body-frame speed taken without the negation
BodyFrameSpeedNotNegated(v) == v

\* fwd_speed = -Vb[3], lat_speed = -Vb[4]: forward is the negative body axis
BodyFrameSpeed(v) == -v

\* the body-frame twist Vb = Adjoint(T_bw) Vw (lines 184-196)
BodyTwist(sp) ==
    LET pos == GetBasePosition(sp)
        orn == GetBaseOrientation(sp)
        rpyAngles == getEulerFromQuaternion(orn)
        rpy == RPY(rpyAngles[1], rpyAngles[2], rpyAngles[3])
        R == TransToRp(rpy)[1]
        T_wb == RpToTrans(R, pos)
        T_bw == TransInv(T_wb)
        Adj_Tbw == Adjoint(T_bw)
        Vw == sp.prev_ang_twist \o sp.prev_lin_twist
    IN  MatVec(Adj_Tbw, Vw)

\* the local variables of _reward when it returns
RewardLocals(st) ==
    LET params == return_bezier_params(st.smach)
        StepLength == params[3]
        LateralFraction == params[4]
        YawRate == params[5]
        StepVelocity == params[6]
        Desired == DesiredVelicty(StepVelocity, StepLength)
        Vb == BodyTwist(st.spot)
        obs == get_observation(st)
        fwd_speed == BodyFrameSpeed(Vb[4])
        lat_speed == BodyFrameSpeed(Vb[5])
        forward_only == Gauss(fwd_speed - Desired * Cos(LateralFraction))
        lateral_reward == Gauss(lat_speed - Desired * Sin(LateralFraction))
        forward_reward == CombinedForward(forward_only, lateral_reward)
        yaw_rate == obs[5]
        rot_reward == Gauss(yaw_rate - YawRate)
        rp_reward == -(Abs(obs[1]) + Abs(obs[2]))
        shake_reward == 0
        rate_reward == -(Abs(obs[3]) + Abs(obs[4]))
        drift_reward == 0
        energy_reward == EnergyReward(GetMotorTorques(st.spot),
                                      GetMotorVelocities(st.spot),
                                      st.env.time_step)
    IN  [StepLength |-> StepLength,
         LateralFraction |-> LateralFraction,
         YawRate |-> YawRate,
         StepVelocity |-> StepVelocity,
         DesiredVelicty |-> Desired,
         fwd_speed |-> fwd_speed,
         lat_speed |-> lat_speed,
         lateral_reward |-> lateral_reward,
         forward_reward |-> forward_reward,
         rot_reward |-> rot_reward,
         rp_reward |-> rp_reward,
         shake_reward |-> shake_reward,
         rate_reward |-> rate_reward,
         drift_reward |-> drift_reward,
         energy_reward |-> energy_reward,
         reward |-> WeightedReward(st.env.weights, forward_reward, rot_reward,
                                   energy_reward, drift_reward, shake_reward,
                                   rp_reward, rate_reward)]

\* _reward writing the signed speed back into the gait source
RewardEffectsStoringGait(st, loc) ==
    [st EXCEPT
        !.env.objectives =
            AppendObjective(@, LogEntry(loc.forward_reward, loc.energy_reward,
                                        loc.drift_reward, loc.shake_reward)),
        !.smach.StepVelocity = loc.DesiredVelicty,
        !.locals = loc,
        !.ret.reward = loc.reward]

\* what _reward leaves behind: one entry appended to self._objectives, and
\* the returned reward
RewardEffects(st, loc) ==
    [st EXCEPT
        !.env.objectives =
            AppendObjective(@, LogEntry(loc.forward_reward, loc.energy_reward,
                                        loc.drift_reward, loc.shake_reward)),
        !.locals = loc,
        !.ret.reward = loc.reward]

reward(st0) ==
    LET st == Call(st0, "reward", 0)
    IN  RewardEffects(st, RewardLocals(st))

----------------------------------------------------------------------------
(* spotBezierEnv.step, statement by statement *)

\* self._last_base_position / self._last_base_orientation (lines 144-145)
Snapshot(st0) ==
    LET st == Call(st0, "snapshot", 0)
    IN  [st EXCEPT !.env.last_base_position = GetBasePosition(st.spot),
                   !.env.last_base_orientation = GetBaseOrientation(st.spot)]

\* time.sleep(d): the calling thread resumes d ticks later
Sleep(st0, d) ==
    LET st == Call(st0, "sleep", d)
    IN  [st EXCEPT !.clock = @ + d]

\* time.time(): the reading is the call's argument in the call record
Time(st) == Call(st, "time", st.clock)

TimeToSleep(control_time_step, time_spent) == control_time_step - time_spent

\* sleeping also when no time is left
ShouldSleepAtZero(time_to_sleep) == time_to_sleep >= 0

ShouldSleep(time_to_sleep) == time_to_sleep > 0

\* lines 151-155; `lag` ticks pass between the two readings of time.time()
Pace(st, lag) ==
    LET first == Time(st)
        time_spent == first.clock - st.env.last_frame_time
        second == Time([first EXCEPT !.clock = @ + lag])
        st1 == [second EXCEPT !.env.last_frame_time = second.clock]
        time_to_sleep == TimeToSleep(st.env.control_time_step, time_spent)
    IN  IF ShouldSleep(time_to_sleep) THEN Sleep(st1, time_to_sleep) ELSE st1

\* lines 156-161: the camera follows the base, its yaw, pitch and distance kept
Camera(st0) ==
    LET st == Call(st0, "camera", 0)
    IN  [st EXCEPT !.spot.camera = GetBasePosition(st.spot)]

Render(st, lag) == IF st.env.is_render THEN Camera(Pace(st, lag)) ELSE st

\* spotGymEnv._transform_action_to_motor_command
transform_action_to_motor_command(action) == action + 10

\* self.spot.Step(action): the physics gives the robot its next state
Actuate(st0, action, phys) ==
    LET cmd == transform_action_to_motor_command(action)
        st == Call(st0, "actuate", cmd)
    IN  [st EXCEPT !.spot = [phys EXCEPT !.command = cmd,
                                         !.camera = st.spot.camera]]

\* spotGymEnv._termination: an external predicate of the robot's state
termination(st) == st.spot.fallen

Termination(st0) ==
    LET st == Call(st0, "termination", 0)
    IN  [st EXCEPT !.ret.done = termination(st)]

\* the step counter left as it was
IncrementSkipped(st0) == Call(st0, "increment", 0)

Increment(st0) ==
    LET st == Call(st0, "increment", 0)
    IN  [st EXCEPT !.env.env_step_counter = @ + 1]

\* self.DrawFootPath()
DrawFootPath(st0) ==
    LET st == Call(st0, "foot", 0)
    IN  [st EXCEPT !.env.foot_path = @ + 1]

FootPath(st) == IF st.env.draw_foot_path THEN DrawFootPath(st) ELSE st

Observe(st) == [st EXCEPT !.ret.obs = get_observation(st)]

\* the snapshot taken after the actuation
stepSnapshotLate(st, action, lag, phys) ==
    Observe(
      FootPath(
        Increment(
          Termination(
            reward(
              Snapshot(
                Actuate(
                  Render(st, lag), action, phys)))))))

step(st, action, lag, phys) ==
    Observe(
      FootPath(
        Increment(
          Termination(
            reward(
              Actuate(
                Render(
                  Snapshot(st), lag), action, phys))))))

----------------------------------------------------------------------------
(* The values the model draws from *)

ControlTimeStep == 2

TimeStep == 10

DefaultWeights ==
    [distance |-> 10000, rotation |-> 10000, energy |-> 5, shake |-> 50,
     drift |-> 20000, rp |-> 1000, rate |-> 1000]

OtherWeights ==
    [distance |-> 20000, rotation |-> 5000, energy |-> 10, shake |-> 50,
     drift |-> 20000, rp |-> 2000, rate |-> 1000]

Float(neg, mag) == [neg |-> neg, mag |-> mag]

Gait(sl, lf, yr, sv) ==
    [StepLength |-> sl, LateralFraction |-> lf, YawRate |-> yr, StepVelocity |-> sv]

Robot(pos, orn, ang, lin, tq, vel, obs) ==
    [pos |-> pos, orn |-> orn, prev_ang_twist |-> ang, prev_lin_twist |-> lin,
     torques |-> tq, velocities |-> vel, obs |-> obs,
     fallen |-> Abs(obs[1]) + Abs(obs[2]) > 0,
     command |-> 0, camera |-> Zero3]

ZeroObs == <<0, 0, 0, 0, 0>>

ZeroMotors == [i \in 1..NumMotors |-> 0]

\* the end-to-end scenario of the specification
ScenarioRobot ==
    Robot(Zero3, 0, Zero3, <<-4, 0, 0>>, ZeroMotors, ZeroMotors, ZeroObs)

ScenarioGait == Gait(Float(FALSE, 1), 0, 0, 4)

PhysOutcomes ==
    { ScenarioRobot,
      Robot(<<1, 0, 0>>, 1, <<0, 0, 4>>, <<0, -4, 0>>,
            [i \in 1..NumMotors |-> 1], [i \in 1..NumMotors |-> IF i = 1 THEN -2 ELSE 0],
            <<10, -20, 5, -7, 4>>) }

\* the commands the gait generator alternates between while stepping
StepGaits == { ScenarioGait, Gait(Float(TRUE, 1), 1, 4, 4) }

GaitChoices == StepGaits \cup { Gait(Float(FALSE, 1), 0, 0, -4) }

Actions == {0, 1}

\* ticks that may pass between the two readings of time.time() in step
Lags == {0, 1}

\* inputs of the reward evaluator taken alone
Vectors(n) == [1..n -> -MaxTorque..MaxTorque]

EnergyRobots ==
    { [ScenarioRobot EXCEPT !.torques = tq, !.velocities = vel] :
        tq \in Vectors(NumMotors), vel \in Vectors(NumMotors) }

KinematicRobots ==
    { Robot(pos, orn, ang, lin, ZeroMotors, ZeroMotors, obs) :
        pos \in {Zero3, <<1, 2, 0>>}, orn \in 0..3,
        ang \in {Zero3, <<0, 0, 4>>},
        lin \in {<<-4, 0, 0>>, Zero3, <<1, -4, 0>>},
        obs \in {ZeroObs, <<10, -20, 5, -7, 4>>} }

WideGaits ==
    { Gait(Float(neg, mag), lf, yr, sv) :
        neg \in BOOLEAN, mag \in 0..1, lf \in -1..1, yr \in {0, 4},
        sv \in {-4, 0, 4, 8} }

NoLocals ==
    [StepLength |-> Float(FALSE, 0), LateralFraction |-> 0, YawRate |-> 0,
     StepVelocity |-> 0, DesiredVelicty |-> 0, fwd_speed |-> 0, lat_speed |-> 0,
     lateral_reward |-> 0, forward_reward |-> 0, rot_reward |-> 0,
     rp_reward |-> 0, shake_reward |-> 0, rate_reward |-> 0, drift_reward |-> 0,
     energy_reward |-> 0, reward |-> 0]

NoReturn == [obs |-> ZeroObs, reward |-> 0, done |-> FALSE]

Env(render, draw, w, ts) ==
    [last_base_position |-> Zero3, last_base_orientation |-> 0,
     env_step_counter |-> 0, objectives |-> <<>>, last_frame_time |-> 0,
     is_render |-> render, draw_foot_path |-> draw,
     control_time_step |-> ControlTimeStep, time_step |-> ts,
     weights |-> w, foot_path |-> 0]

State == [spot |-> spot, smach |-> smach, env |-> env, clock |-> clock,
          calls |-> <<>>, locals |-> locals, ret |-> ret]

Becomes(st) ==
    /\ spot' = st.spot
    /\ smach' = st.smach
    /\ env' = st.env
    /\ clock' = st.clock
    /\ calls' = st.calls
    /\ locals' = st.locals
    /\ ret' = st.ret

----------------------------------------------------------------------------
(* The environment in use *)

Init ==
    /\ spot = ScenarioRobot
    /\ smach \in StepGaits
    /\ \E render \in BOOLEAN, draw \in BOOLEAN :
          env = Env(render, draw, DefaultWeights, TimeStep)
    /\ clock = 0
    /\ calls = <<>>
    /\ locals = NoLocals
    /\ ret = NoReturn

\* one call of step; `elapsed` ticks have passed since the previous call
StepCall ==
    /\ env.env_step_counter < MaxSteps
    /\ Len(env.objectives) < MaxSteps
    /\ clock < MaxClock
    /\ \E action \in Actions, elapsed \in 1..MaxElapsed, lag \in Lags,
          phys \in PhysOutcomes :
          Becomes(step([State EXCEPT !.clock = @ + elapsed], action, lag, phys))

\* one call of _reward on its own
RewardCall ==
    /\ Len(env.objectives) < MaxSteps
    /\ Becomes(reward(State))

\* the gait generator moves on to its next command between calls
GaitUpdate ==
    /\ smach' \in StepGaits \ {smach}
    /\ UNCHANGED <<spot, env, clock, calls, locals, ret>>

\* spotGymEnv.reset: a new episode starts
Reset ==
    /\ env.env_step_counter > 0
    /\ env' = [env EXCEPT !.env_step_counter = 0, !.objectives = <<>>]
    /\ UNCHANGED <<spot, smach, clock, calls, locals, ret>>

\* the reward evaluator applied to every input of the bounded sets
InitReward ==
    /\ \/ /\ spot \in EnergyRobots
          /\ smach \in GaitChoices
          /\ env = Env(FALSE, FALSE, DefaultWeights, TimeStep)
       \/ /\ spot \in KinematicRobots
          /\ smach \in WideGaits
          /\ \E w \in {DefaultWeights, OtherWeights} :
                env = Env(FALSE, FALSE, w, TimeStep)
    /\ clock = 0
    /\ calls = <<>>
    /\ locals = NoLocals
    /\ ret = NoReturn

NextReward == RewardCall

SpecReward == InitReward /\ [][NextReward]_vars

Next == StepCall \/ RewardCall \/ GaitUpdate \/ Reset

Spec == Init /\ [][Next]_vars

----------------------------------------------------------------------------
(* Reading the call record and the log *)

Ops(cs) == [i \in 1..Len(cs) |-> cs[i].op]

Has(cs, op) == \E i \in 1..Len(cs) : cs[i].op = op

ArgsOf(cs, op) == SelectSeq(cs, LAMBDA c : c.op = op)

Last(q) == q[Len(q)]

\* a call of the reward evaluator has completed and its results are in place
Evaluated == Has(calls, "reward") /\ env.objectives # <<>>

Sign(f) == IF f.mag = 0 THEN 0 ELSE IF f.neg THEN -1 ELSE 1

AllZero(v) == \A i \in 1..Len(v) : v[i] = 0

\* this transition is a call of step: every call of step takes at least one
\* tick and nothing else moves the clock
Stepped == clock' # clock

\* this transition is a call of _reward on its own: it leaves its call record
RewardedAlone == clock' = clock /\ calls' # calls

\* the calls a step makes after the snapshot and the optional rendering part
StepTail(draw) ==
    <<"actuate", "reward", "termination", "increment">>
        \o (IF draw THEN <<"foot">> ELSE <<>>)

----------------------------------------------------------------------------
(* C1: within every call of step the side effects happen in the fixed order *)
(* snapshot, (rendering: pacing, camera), actuation, reward, termination,   *)
(* counter increment, (foot trace).  The snapshot holds the pose from       *)
(* before the actuation, the reward and the termination predicate see the   *)
(* state after it, and both run before the counter is incremented.          *)

C1_Order ==
    LET ops == Ops(calls')
        n0 == env.env_step_counter
        l0 == Len(env.objectives)
        plain == SelectSeq(ops, LAMBDA o : o # "sleep")
        at(op) == CHOOSE i \in 1..Len(calls') : calls'[i].op = op
    IN  /\ plain = <<"snapshot">>
                     \o (IF env.is_render THEN <<"time", "time", "camera">> ELSE <<>>)
                     \o StepTail(env.draw_foot_path)
        /\ Has(calls', "sleep") => ops[4] = "sleep"
        /\ Len(ops) <= Len(plain) + 1
        \* the snapshot is the pose before the actuation
        /\ env'.last_base_position = spot.pos
        /\ env'.last_base_orientation = spot.orn
        \* the actuation gets the transformed action before the reward is taken
        /\ calls'[at("actuate")].len = l0
        /\ spot'.command = calls'[at("actuate")].arg
        \* the reward is evaluated on the state the actuation left
        /\ calls'[at("reward")].cnt = n0
        /\ locals' = RewardLocals([State EXCEPT !.spot = spot'])
        \* the termination predicate runs after the reward, before the increment
        /\ calls'[at("termination")].len = l0 + 1
        /\ calls'[at("termination")].cnt = n0
        /\ ret'.done = spot'.fallen
        /\ calls'[at("increment")].cnt = n0
        /\ env'.env_step_counter = n0 + 1
        /\ env.draw_foot_path => calls'[at("foot")].cnt = n0 + 1

C1_StepOrder == [][Stepped => C1_Order]_vars

\* a step with rendering and foot tracing, snapshot differing from the new pose
C1_Witness ==
    /\ Ops(calls) = <<"snapshot", "time", "time", "sleep", "camera", "actuate",
                      "reward", "termination", "increment", "foot">>
    /\ env.last_base_position # spot.pos

----------------------------------------------------------------------------
(* C2: the objectives log is append-only: every call of _reward (alone or  *)
(* inside step) adds exactly one 4-tuple (forward, energy, drift, shake)   *)
(* at the end, and the entries already there stay as and where they were.  *)

C2_Appended ==
    /\ Len(env'.objectives) = Len(env.objectives) + 1
    /\ SubSeq(env'.objectives, 1, Len(env.objectives)) = env.objectives
    /\ Len(Last(env'.objectives)) = 4
    /\ Last(env'.objectives) =
          <<locals'.forward_reward, locals'.energy_reward,
            locals'.drift_reward, locals'.shake_reward>>

C2_AppendOnly == [][(Stepped \/ RewardedAlone) => C2_Appended]_vars

\* a log of two different entries, the second appended by the latest call
C2_Witness ==
    /\ Len(env.objectives) = 2
    /\ env.objectives[1] # env.objectives[2]
    /\ Evaluated

----------------------------------------------------------------------------
(* C3: with stepLength == 0 the desired forward speed is 0 for every        *)
(* stepVelocity.                                                            *)

C3_ZeroStepLength ==
    (Evaluated /\ locals.StepLength.mag = 0) => locals.DesiredVelicty = 0

----------------------------------------------------------------------------
(* C4: the desired forward speed is sign(stepLength) * stepVelocity / 4     *)
(* for every stepLength and every stepVelocity.                             *)

C4_SignTimesVelocity ==
    Evaluated =>
        locals.DesiredVelicty = Sign(locals.StepLength) * locals.StepVelocity

(* C4 as amended: for every stepLength other than 0 and every stepVelocity *)
(* the desired forward speed is sign(stepLength) * |stepVelocity| / 4.     *)

C4_SignTimesMagnitude ==
    (Evaluated /\ locals.StepLength.mag # 0) =>
        locals.DesiredVelicty = Sign(locals.StepLength) * Abs(locals.StepVelocity)

\* a backward step length with a negative step velocity
C4_Witness ==
    /\ Evaluated
    /\ locals.StepLength = Float(TRUE, 1)
    /\ locals.StepVelocity = -4
    /\ locals.DesiredVelicty = -4

----------------------------------------------------------------------------
(* C5: the energy penalty is <= 0 and is 0 exactly when all torques or all *)
(* velocities are 0.                                                       *)

C5_ZeroOnlyForZeroVector ==
    Evaluated =>
        /\ locals.energy_reward <= 0
        /\ locals.energy_reward = 0 <=>
              (AllZero(spot.torques) \/ AllZero(spot.velocities))

(* C5 as amended: the energy penalty is <= 0 and is 0 exactly when the dot *)
(* product of the torques and the velocities is 0, which covers all        *)
(* torques 0 and all velocities 0.                                         *)

C5_ZeroIffDotZero ==
    Evaluated =>
        /\ locals.energy_reward <= 0
        /\ locals.energy_reward = 0 <=> (Dot(spot.torques, spot.velocities) = 0)
        /\ (AllZero(spot.torques) \/ AllZero(spot.velocities))
              => locals.energy_reward = 0

\* torques and velocities whose products cancel to a negative dot product
C5_Witness ==
    /\ Evaluated
    /\ Dot(spot.torques, spot.velocities) < 0
    /\ locals.energy_reward < 0

----------------------------------------------------------------------------
(* C6: in the end-to-end scenario, with the default weights, _reward       *)
(* returns 3.0 and logs (2.0, 0.0, 0.0, 0.0).                              *)

InScenario ==
    /\ spot.pos = Zero3
    /\ spot.orn = 0
    /\ spot.prev_ang_twist = Zero3
    /\ spot.prev_lin_twist = <<-4, 0, 0>>
    /\ spot.obs = ZeroObs
    /\ Dot(spot.torques, spot.velocities) = 0
    /\ smach = ScenarioGait
    /\ env.weights = DefaultWeights

C6_Scenario ==
    (Evaluated /\ InScenario) =>
        /\ ret.reward = 30000000
        /\ Last(env.objectives) = <<2000, 0, 0, 0>>

C6_Witness == Evaluated /\ InScenario /\ ret.reward = 30000000

----------------------------------------------------------------------------
(* C7: step asks for a sleep only when rendering is on and the time spent  *)
(* since the last frame is below the control time step, and then for       *)
(* exactly control_time_step - time_spent, never for 0 or less.            *)

C7_Sleeps ==
    LET sleeps == ArgsOf(calls', "sleep")
        first == ArgsOf(calls', "time")[1].arg
        time_spent == first - env.last_frame_time
    IN  /\ \A i \in 1..Len(sleeps) : sleeps[i].arg > 0
        /\ IF env.is_render /\ time_spent < env.control_time_step
             THEN /\ Len(sleeps) = 1
                  /\ sleeps[1].arg = env.control_time_step - time_spent
             ELSE sleeps = <<>>

C7_Pacing == [][Stepped => C7_Sleeps]_vars

\* a rendered step that slept for one tick
C7_Witness ==
    /\ env.is_render
    /\ Has(calls, "sleep")
    /\ ArgsOf(calls, "sleep")[1].arg = 1

----------------------------------------------------------------------------
(* C8: the gait parameters held by the gait source are the same after a    *)
(* call of step or of _reward as before it.                                *)

C8_GaitUnchanged == [][(Stepped \/ RewardedAlone) => smach' = smach]_vars

\* a call that read a backward gait and left it in the gait source
C8_Witness ==
    /\ Evaluated
    /\ smach.StepLength.neg
    /\ locals.StepLength = smach.StepLength
    /\ locals.StepVelocity = smach.StepVelocity

----------------------------------------------------------------------------
(* C9: the lateral reward is added into the forward reward before use: the *)
(* value weighted by the distance weight and the first logged component    *)
(* are both forward + lateral.                                             *)

C9_Combined ==
    Evaluated =>
        LET forward == Gauss(locals.fwd_speed
                               - locals.DesiredVelicty * Cos(locals.LateralFraction))
            combined == forward + locals.lateral_reward
            w == env.weights
        IN  /\ Last(env.objectives)[1] = combined
            /\ ret.reward =
                  w.distance * combined + w.rotation * locals.rot_reward
                    + w.energy * locals.energy_reward + w.rp * locals.rp_reward
                    + w.rate * locals.rate_reward

\* both parts are non-zero and differ
C9_Witness ==
    /\ Evaluated
    /\ locals.lateral_reward = 535
    /\ Last(env.objectives)[1] = 1535

----------------------------------------------------------------------------
(* C10: every call of step adds exactly 1 to the step counter and exactly  *)
(* 1 to the length of the log, so their difference is the same after the   *)
(* call as before it.                                                      *)

C10_StepGrowsBoth ==
    [][Stepped =>
          /\ env'.env_step_counter = env.env_step_counter + 1
          /\ Len(env'.objectives) = Len(env.objectives) + 1
          /\ Len(env'.objectives) - env'.env_step_counter
                = Len(env.objectives) - env.env_step_counter]_vars

\* two steps in a row from a fresh environment
C10_Witness ==
    /\ env.env_step_counter = 2
    /\ Len(env.objectives) = 2
    /\ Has(calls, "increment")

====
